---- MODULE Spec2Model ----
(***************************************************************************)
(* The MerkleRedeem distribution ledger (contracts/src/MerkleRedeemV2.sol) *)
(* as a state machine: the contract's storage, the token balances it       *)
(* moves, and the call stack of claim and seed calls that are waiting in   *)
(* an external token call (and may be re-entered from it); and one run of  *)
(* the snapshot pipeline (snapshots/cli.js with its stake-set fetcher,     *)
(* snapshots/src/helpers/subgraph-events.js) that sizes the reward pool    *)
(* and produces the seeding transaction.                                   *)
(***************************************************************************)
EXTENDS Integers, Sequences, FiniteSets, TLC

(***************************************************************************)
(* Bounds of the model.                                                    *)
(***************************************************************************)
\* Longest chain of nested contract calls (1 = no re-entrancy).
MaxDepth == 2
\* Longest Claim[] array handed to claimMonths.
MaxBatch == 2
\* Width of the unsigned integers (uint is 256 bits wide in the contract).
UintBits == 3
\* Tokens the deployer holds when the contract is constructed.
InitialFunds == 3

UintMax == 2 ^ UintBits - 1

(***************************************************************************)
(* Addresses.  Claimants are 1 and 2, the deployer is 3, the contract      *)
(* itself is 4.                                                            *)
(***************************************************************************)
Addrs == {1, 2}
Deployer == 3
This == 4
Callers == Addrs \cup {Deployer}
Accounts == Callers \cup {This}
Months == {1, 2}
Amounts == 0 .. 2

(***************************************************************************)
(* keccak256 as a collision-free function into the positive naturals;      *)
(* bytes32(0) is 0.  A leaf preimage (52 bytes) and an inner-node preimage *)
(* (64 bytes) never coincide: leaves are odd, inner nodes even.            *)
(***************************************************************************)
Zero == 0

Pair(x, y) == ((x + y) * (x + y + 1)) \div 2 + y

LeafHash(_liquidityProvider, _claimedBalance) ==
    2 * Pair(_liquidityProvider, _claimedBalance) + 1

HashPair(a, b) ==
    IF a < b THEN 2 * Pair(a, b) + 2 ELSE 2 * Pair(b, a) + 2

RECURSIVE ProcessProof(_, _, _)
ProcessProof(proof, i, computedHash) ==
    IF i > Len(proof) THEN computedHash
    ELSE ProcessProof(proof, i + 1, HashPair(computedHash, proof[i]))

MerkleVerify(proof, root, leaf) == ProcessProof(proof, 1, leaf) = root

\* Inverse of the hash model, used to say what a root commits to.
RECURSIVE ISqrtIn(_, _, _)
ISqrtIn(n, lo, hi) ==
    IF lo >= hi THEN lo
    ELSE LET mid == (lo + hi + 1) \div 2
         IN  IF mid * mid <= n THEN ISqrtIn(n, mid, hi) ELSE ISqrtIn(n, lo, mid - 1)

\* 46340 is the largest root whose square TLC's integers hold.
ISqrt(n) == ISqrtIn(n, 0, IF n < 46340 THEN n ELSE 46340)

UnpairW(z) == (ISqrt(8 * z + 1) - 1) \div 2
UnpairY(z) == z - (UnpairW(z) * (UnpairW(z) + 1)) \div 2
UnpairX(z) == UnpairW(z) - UnpairY(z)

IsNode(h) == h > 0 /\ h % 2 = 0

RECURSIVE Subtrees(_)
Subtrees(h) ==
    IF IsNode(h)
    THEN {h} \cup Subtrees(UnpairX((h - 2) \div 2)) \cup Subtrees(UnpairY((h - 2) \div 2))
    ELSE {h}

\* (claimant, amount) is a leaf of the tree whose root is r.
Commits(r, lp, amount) == r # Zero /\ LeafHash(lp, amount) \in Subtrees(r)

(***************************************************************************)
(* Inputs.  The owner seeds with the zero root or with the root of one of  *)
(* two two-leaf trees; claimants present the matching proofs, a proof of   *)
(* the other tree, a wrong amount, or the empty proof.                     *)
(***************************************************************************)
Root1 == HashPair(LeafHash(1, 1), LeafHash(2, 2))
Root2 == HashPair(LeafHash(1, 2), LeafHash(2, 0))
RootInputs == {Zero, Root1, Root2}
AllocInputs == {0, InitialFunds}

\* seedAllocations as the deployer, who owns the contract, calls it, and as a
\* claimant calls it.
SeedInputs ==
    { [sender |-> Deployer, month |-> m, root |-> r, alloc |-> a] :
        m \in Months, r \in RootInputs, a \in AllocInputs }
    \cup { [sender |-> 1, month |-> m, root |-> Root1, alloc |-> 0] : m \in Months }

\* The claim of lp's leaf in the tree of Root1, and in the tree of Root2.
Leaf1(lp) ==
    IF lp = 1 THEN [balance |-> 1, merkleProof |-> <<LeafHash(2, 2)>>]
              ELSE [balance |-> 2, merkleProof |-> <<LeafHash(1, 1)>>]

Leaf2(lp) ==
    IF lp = 1 THEN [balance |-> 2, merkleProof |-> <<LeafHash(2, 0)>>]
              ELSE [balance |-> 0, merkleProof |-> <<LeafHash(1, 2)>>]

\* A claim no root commits: a wrong amount, or the empty proof.
NoLeaf(lp) ==
    IF lp = 1 THEN [balance |-> 1, merkleProof |-> <<LeafHash(2, 0)>>]
              ELSE [balance |-> 2, merkleProof |-> <<>>]

ClaimShapes(lp) == {Leaf1(lp), Leaf2(lp), NoLeaf(lp)}

\* The Claim struct of claimMonths.
Entry(m, c) == [month |-> m, balance |-> c.balance, merkleProof |-> c.merkleProof]

ClaimInputs(lp) == {Entry(1, Leaf1(lp)), Entry(2, Leaf1(lp)), Entry(2, Leaf2(lp))}

BatchInputs(lp) == UNION { [1 .. n -> ClaimInputs(lp)] : n \in 0 .. MaxBatch }

\* <<begin, end>> of the range queries: low periods, the top of the range,
\* begin = end + 1 and begin > end + 1.
RangeInputs == {<<0, 2>>, <<1, 1>>, <<UintMax, UintMax>>, <<2, 1>>, <<2, 0>>}

(***************************************************************************)
(* State.                                                                  *)
(***************************************************************************)
VARIABLES
    monthMerkleRoots,   \* mapping(uint => bytes32), restricted to Months
    claimed,            \* mapping(uint => mapping(address => bool))
    owner,              \* Ownable's owner: the deployer
    balanceOf,          \* the token's balances
    stack,              \* contract calls waiting in token.transfer / transferFrom
    paid,               \* history: successful claims per (month, claimant), capped at 2
    seeds,              \* history: successful seedAllocations per month, capped at 2
    escrow,             \* history: tokens seeded (in) and paid out (out) per month
    last                \* the call the last step started, finished or answered

\* The snapshot pipeline (snapshots/cli.js): one run of main.
VARIABLES
    pc,                 \* where main is: the await it waits in, "done" or "aborted"
    clock,              \* new Date(): UTC year and month (0 = January) of the run
    lastamount,         \* --lastamount
    source,             \* the subgraph's stakeSets, ascending by id
    locals,             \* main's locals
    fetch,              \* the locals of getStakeSets / fetchAllStakeSets
    written,            \* the snapshot file is in .cache
    uploaded,           \* fileToIpfs has resolved
    tx,                 \* the populated seedAllocations transaction
    cause               \* what made main throw

ledgerVars == <<monthMerkleRoots, claimed, owner, balanceOf, stack, paid, seeds, escrow, last>>
pipelineVars == <<pc, clock, lastamount, source, locals, fetch, written, uploaded, tx, cause>>
vars == <<ledgerVars, pipelineVars>>

\* Everything a revert restores.
Ledger ==
    [ roots |-> monthMerkleRoots, claimed |-> claimed, owner |-> owner,
      bal |-> balanceOf, paid |-> paid, seeds |-> seeds, escrow |-> escrow ]

Restore(s) ==
    /\ monthMerkleRoots' = s.roots
    /\ claimed' = s.claimed
    /\ owner' = s.owner
    /\ balanceOf' = s.bal
    /\ paid' = s.paid
    /\ seeds' = s.seeds
    /\ escrow' = s.escrow

\* A call: the function and its arguments (msg.sender where the code reads it).
\* months lists the months the call names, in order; amount is _claimedBalance,
\* _totalAllocation, or the sum of the claims' balances.
NoCall ==
    [ op |-> "none", sender |-> 0, lp |-> 0, months |-> <<>>, root |-> Zero,
      amount |-> 0, proof |-> <<>>, claims |-> <<>>, begin |-> 0, end |-> 0 ]

\* The require of the claimed flag carries no message; this names its revert.
ErrClaimed == "already claimed"
ErrProof == "Incorrect merkle proof"
ErrTransfer == "ERR_TRANSFER_FAILED"
ErrRewrite == "cannot rewrite merkle root"
ErrOwner == "Ownable: caller is not the owner"
ErrPanic == "arithmetic overflow"
Errors == {ErrClaimed, ErrProof, ErrTransfer, ErrRewrite, ErrOwner, ErrPanic}

Min(a, b) == IF a < b THEN a ELSE b

\* What a step did: the call it started, finished or answered.
\* res: "ok", "pending" (the call is inside the token) or the revert reason;
\* ret: what the token answered in this step ("none" when it was not the token);
\* depth: the calls that were waiting when the call was made;
\* pre: the ledger when the call was made; before: the ledger before this step.
Outcome(call, res, ret, depth, pre) ==
    [ call |-> call, res |-> res, ret |-> ret, depth |-> depth,
      pre |-> pre, before |-> Ledger, retBools |-> <<>>, retRoots |-> <<>> ]

\* The contract after its constructor.
Constructed ==
    /\ monthMerkleRoots = [m \in Months |-> Zero]
    /\ claimed = [m \in Months |-> [a \in Addrs |-> FALSE]]
    /\ owner = Deployer
    /\ balanceOf = [a \in Accounts |-> IF a = Deployer THEN InitialFunds ELSE 0]
    /\ stack = <<>>
    /\ paid = [m \in Months |-> [a \in Addrs |-> 0]]
    /\ seeds = [m \in Months |-> 0]
    /\ escrow = [in |-> [m \in Months |-> 0], out |-> [m \in Months |-> 0]]
    /\ last = Outcome(NoCall, "ok", "none", 0, Ledger)

\* main's locals before it has set them, and the fetch loop before it starts.
NoLocals ==
    [ target |-> 0, period |-> 0, totalPNKStaked |-> 0, totalSupply |-> 0,
      fullReward |-> 0, droppedAmount |-> 0, root |-> Zero ]

NoFetch ==
    [ phase |-> "none", blockStart |-> 0, blockEnd |-> 0, lastId |-> 0, i |-> 0,
      batches |-> <<>>, attempts |-> 0, events |-> <<>> ]

NoTx == [month |-> 0, root |-> Zero, alloc |-> 0, made |-> FALSE]

\* The pipeline is not running.
NotRun ==
    /\ pc = "idle"
    /\ clock = [year |-> 0, month |-> 0]
    /\ lastamount = 0
    /\ source = <<>>
    /\ locals = NoLocals
    /\ fetch = NoFetch
    /\ written = FALSE
    /\ uploaded = FALSE
    /\ tx = NoTx
    /\ cause = "none"

Init == Constructed /\ NotRun

(***************************************************************************)
(* The contract's functions.                                               *)
(***************************************************************************)
\* The proof is not compared with the stored root.
verifyClaimAnyRoot(roots, _liquidityProvider, _month, _claimedBalance, _merkleProof) ==
    TRUE

verifyClaim(roots, _liquidityProvider, _month, _claimedBalance, _merkleProof) ==
    MerkleVerify(_merkleProof, roots[_month],
                 LeafHash(_liquidityProvider, _claimedBalance))

\* The flag is not written before the transfer.
MarkLater(cl, _month, _liquidityProvider) == cl

\* claimed[_month][_liquidityProvider] = true
MarkClaimed(cl, _month, _liquidityProvider) ==
    [cl EXCEPT ![_month][_liquidityProvider] = TRUE]

\* disburse: if (_balance > 0) ...
NeedsTransfer(_balance) == _balance > 0

\* The token's return value is not looked at.
TransferUnchecked(ret) == ret # "revert"

\* require(token.transfer(...)) and require(token.transferFrom(...)):
\* the call goes on only when the token returned true.
TransferAccepted(ret) == ret = "true"

\* claimMonth up to the external call: the two requires, then the flag.
ClaimMonthEffects(roots, cl, _liquidityProvider, _month, _claimedBalance, _merkleProof) ==
    IF cl[_month][_liquidityProvider]
    THEN [res |-> ErrClaimed, claimed |-> cl, totalBalance |-> 0]
    ELSE IF ~verifyClaim(roots, _liquidityProvider, _month, _claimedBalance, _merkleProof)
    THEN [res |-> ErrProof, claimed |-> cl, totalBalance |-> 0]
    ELSE [res |-> "ok", claimed |-> MarkClaimed(cl, _month, _liquidityProvider),
          totalBalance |-> _claimedBalance]

\* The loop with a bad entry skipped instead of required.
RECURSIVE ClaimLoopSkip(_, _, _, _, _, _)
ClaimLoopSkip(roots, cl, lp, claims, i, totalBalance) ==
    IF i > Len(claims)
    THEN [res |-> "ok", claimed |-> cl, totalBalance |-> totalBalance]
    ELSE LET claim == claims[i] IN
         IF \/ cl[claim.month][lp]
            \/ ~verifyClaim(roots, lp, claim.month, claim.balance, claim.merkleProof)
            \/ totalBalance + claim.balance > UintMax
         THEN ClaimLoopSkip(roots, cl, lp, claims, i + 1, totalBalance)
         ELSE ClaimLoopSkip(roots, MarkClaimed(cl, claim.month, lp), lp, claims, i + 1,
                            totalBalance + claim.balance)

\* The loop with totalBalance = claim.balance in place of +=.
RECURSIVE ClaimLoopAssign(_, _, _, _, _, _)
ClaimLoopAssign(roots, cl, lp, claims, i, totalBalance) ==
    IF i > Len(claims)
    THEN [res |-> "ok", claimed |-> cl, totalBalance |-> totalBalance]
    ELSE LET claim == claims[i] IN
         IF cl[claim.month][lp]
         THEN [res |-> ErrClaimed, claimed |-> cl, totalBalance |-> 0]
         ELSE IF ~verifyClaim(roots, lp, claim.month, claim.balance, claim.merkleProof)
         THEN [res |-> ErrProof, claimed |-> cl, totalBalance |-> 0]
         ELSE ClaimLoopAssign(roots, MarkClaimed(cl, claim.month, lp), lp, claims, i + 1,
                              claim.balance)

\* The loop of claimMonths from entry i on, with the flags and the sum so far.
RECURSIVE ClaimLoopFrom(_, _, _, _, _, _)
ClaimLoopFrom(roots, cl, lp, claims, i, totalBalance) ==
    IF i > Len(claims)
    THEN [res |-> "ok", claimed |-> cl, totalBalance |-> totalBalance]
    ELSE LET claim == claims[i] IN
         IF cl[claim.month][lp]
         THEN [res |-> ErrClaimed, claimed |-> cl, totalBalance |-> 0]
         ELSE IF ~verifyClaim(roots, lp, claim.month, claim.balance, claim.merkleProof)
         THEN [res |-> ErrProof, claimed |-> cl, totalBalance |-> 0]
         ELSE IF totalBalance + claim.balance > UintMax
         THEN [res |-> ErrPanic, claimed |-> cl, totalBalance |-> 0]
         ELSE ClaimLoopFrom(roots, MarkClaimed(cl, claim.month, lp), lp, claims, i + 1,
                            totalBalance + claim.balance)

ClaimMonthsEffects(roots, cl, _liquidityProvider, claims) ==
    ClaimLoopFrom(roots, cl, _liquidityProvider, claims, 1, 0)

\* How many entries of the call are for (m, a).
Covers(call, m, a) ==
    IF call.op \in {"claimMonth", "claimMonths"} /\ call.lp = a
    THEN Cardinality({i \in 1 .. Len(call.months) : call.months[i] = m})
    ELSE 0

PaidAfter(call) ==
    [m \in Months |-> [a \in Addrs |-> Min(paid[m][a] + Covers(call, m, a), 2)]]

SeedsAfter(call) ==
    [m \in Months |->
        IF call.op = "seedAllocations" /\ call.months[1] = m
        THEN Min(seeds[m] + 1, 2) ELSE seeds[m]]

\* The tokens the call's entries for month m claim.
RECURSIVE ClaimedFor(_, _, _)
ClaimedFor(call, m, i) ==
    IF i > Len(call.months) THEN 0
    ELSE (IF call.months[i] # m THEN 0
          ELSE IF call.op = "claimMonth" THEN call.amount
          ELSE call.claims[i].balance)
         + ClaimedFor(call, m, i + 1)

\* The escrow history once the call's transfer is done.
EscrowAfter(call) ==
    IF call.op = "seedAllocations"
    THEN [escrow EXCEPT !.in[call.months[1]] = @ + call.amount]
    ELSE [escrow EXCEPT !.out = [m \in Months |-> @[m] + ClaimedFor(call, m, 1)]]

\* The token: it moves amt only when the sender holds it.
TokenAccepts(bal, from, amt) == bal[from] >= amt

TokenMove(bal, from, to, amt) ==
    IF from = to THEN bal
    ELSE [bal EXCEPT ![from] = @ - amt, ![to] = @ + amt]

\* A call that reverts before any external call: nothing changes.
Fail(call, res) ==
    /\ last' = Outcome(call, res, "none", Len(stack), Ledger)
    /\ UNCHANGED <<monthMerkleRoots, claimed, owner, balanceOf, stack, paid, seeds, escrow>>

\* A call that enters the token: the frame keeps the state to revert to.
EnterToken(call, from, to, amt) ==
    /\ stack' = Append(stack, [call |-> call, from |-> from, to |-> to, amt |-> amt,
                               saved |-> Ledger])
    /\ last' = Outcome(call, "pending", "none", Len(stack), Ledger)

\* A new call fits under the depth the specification allows.
CanCall(depth) == Len(stack) < depth

\* The requires passed and the flags are written: disburse.
Disburse(call, eff) ==
    /\ claimed' = eff.claimed
    /\ IF NeedsTransfer(eff.totalBalance)
       THEN /\ EnterToken(call, This, call.lp, eff.totalBalance)
            /\ UNCHANGED <<monthMerkleRoots, owner, balanceOf, paid, seeds, escrow>>
       ELSE /\ paid' = PaidAfter(call)
            /\ last' = Outcome(call, "ok", "none", Len(stack), Ledger)
            /\ UNCHANGED <<monthMerkleRoots, owner, balanceOf, stack, seeds, escrow>>

claimMonth(_liquidityProvider, _month, _claimedBalance, _merkleProof) ==
    LET call == [NoCall EXCEPT !.op = "claimMonth", !.lp = _liquidityProvider,
                               !.months = <<_month>>, !.amount = _claimedBalance,
                               !.proof = _merkleProof]
        eff == ClaimMonthEffects(monthMerkleRoots, claimed, _liquidityProvider,
                                 _month, _claimedBalance, _merkleProof)
    IN  IF eff.res # "ok"
        THEN Fail(call, eff.res)
        ELSE Disburse(call, eff)

claimMonths(_liquidityProvider, claims) ==
    LET call == [NoCall EXCEPT !.op = "claimMonths", !.lp = _liquidityProvider,
                               !.months = [i \in 1 .. Len(claims) |-> claims[i].month],
                               !.claims = claims]
        eff == ClaimMonthsEffects(monthMerkleRoots, claimed, _liquidityProvider, claims)
    IN  IF eff.res # "ok"
        THEN Fail(call, eff.res)
        ELSE Disburse([call EXCEPT !.amount = eff.totalBalance], eff)

\* The modifier left out.
OnlyOwnerMissing(sender) == TRUE

\* onlyOwner
OnlyOwner(sender) == sender = owner

\* The require left out.
RootUnsetUnchecked(roots, _month) == TRUE

\* require(monthMerkleRoots[_month] == bytes32(0), ...)
RootUnset(roots, _month) == roots[_month] = Zero

seedAllocations(sender, _month, _merkleRoot, _totalAllocation) ==
    LET call == [NoCall EXCEPT !.op = "seedAllocations", !.sender = sender,
                               !.months = <<_month>>, !.root = _merkleRoot,
                               !.amount = _totalAllocation]
    IN  IF ~OnlyOwner(sender)
        THEN Fail(call, ErrOwner)
        ELSE IF ~RootUnset(monthMerkleRoots, _month)
        THEN Fail(call, ErrRewrite)
        ELSE /\ monthMerkleRoots' = [monthMerkleRoots EXCEPT ![_month] = _merkleRoot]
             /\ EnterToken(call, sender, This, _totalAllocation)
             /\ UNCHANGED <<claimed, owner, balanceOf, paid, seeds, escrow>>

\* The token answers the innermost waiting call: it returns true (and has moved
\* the tokens), returns false, or reverts.
TokenReturn(ret) ==
    /\ stack # <<>>
    /\ LET f == stack[Len(stack)] IN
       /\ ret = "true" => TokenAccepts(balanceOf, f.from, f.amt)
       /\ stack' = SubSeq(stack, 1, Len(stack) - 1)
       /\ IF TransferAccepted(ret)
          THEN /\ balanceOf' = IF ret = "true"
                               THEN TokenMove(balanceOf, f.from, f.to, f.amt)
                               ELSE balanceOf
               /\ paid' = PaidAfter(f.call)
               /\ seeds' = SeedsAfter(f.call)
               /\ escrow' = EscrowAfter(f.call)
               /\ last' = Outcome(f.call, "ok", ret, Len(stack) - 1, f.saved)
               /\ UNCHANGED <<monthMerkleRoots, claimed, owner>>
          ELSE /\ Restore(f.saved)
               /\ last' = Outcome(f.call, ErrTransfer, ret, Len(stack) - 1, f.saved)

\* The range queries: size = 1 + _end - _begin in checked uint arithmetic.
RangeSize(_begin, _end) ==
    IF 1 + _end > UintMax \/ 1 + _end - _begin < 0 THEN -1 ELSE 1 + _end - _begin

ClaimedAt(cl, m, a) == IF m \in Months THEN cl[m][a] ELSE FALSE
RootAt(roots, m) == IF m \in Months THEN roots[m] ELSE Zero

claimStatus(_liquidityProvider, _begin, _end) ==
    LET call == [NoCall EXCEPT !.op = "claimStatus", !.lp = _liquidityProvider,
                               !.begin = _begin, !.end = _end]
        size == RangeSize(_begin, _end)
    IN  /\ last' = IF size < 0
                   THEN Outcome(call, ErrPanic, "none", Len(stack), Ledger)
                   ELSE [Outcome(call, "ok", "none", Len(stack), Ledger) EXCEPT
                           !.retBools = [i \in 1 .. size |->
                               ClaimedAt(claimed, _begin + (i - 1), _liquidityProvider)]]
        /\ UNCHANGED <<monthMerkleRoots, claimed, owner, balanceOf, stack, paid, seeds, escrow>>

merkleRoots(_begin, _end) ==
    LET call == [NoCall EXCEPT !.op = "merkleRoots", !.begin = _begin, !.end = _end]
        size == RangeSize(_begin, _end)
    IN  /\ last' = IF size < 0
                   THEN Outcome(call, ErrPanic, "none", Len(stack), Ledger)
                   ELSE [Outcome(call, "ok", "none", Len(stack), Ledger) EXCEPT
                           !.retRoots = [i \in 1 .. size |->
                               RootAt(monthMerkleRoots, _begin + (i - 1))]]
        /\ UNCHANGED <<monthMerkleRoots, claimed, owner, balanceOf, stack, paid, seeds, escrow>>

(***************************************************************************)
(* Spec: calls by anyone in any order, with a token that answers each      *)
(* transfer by true, false or a revert and does not call back.             *)
(***************************************************************************)
Next ==
    \/ \E lp \in Addrs, m \in Months : \E c \in ClaimShapes(lp) :
          /\ CanCall(1) /\ claimMonth(lp, m, c.balance, c.merkleProof)
          /\ UNCHANGED pipelineVars
    \/ \E lp \in Addrs : \E claims \in BatchInputs(lp) :
          /\ CanCall(1) /\ claimMonths(lp, claims)
          /\ UNCHANGED pipelineVars
    \/ \E i \in SeedInputs :
          /\ CanCall(1) /\ seedAllocations(i.sender, i.month, i.root, i.alloc)
          /\ UNCHANGED pipelineVars
    \/ \E lp \in Addrs, r \in RangeInputs :
          /\ CanCall(1) /\ claimStatus(lp, r[1], r[2])
          /\ UNCHANGED pipelineVars
    \/ \E r \in RangeInputs :
          /\ CanCall(1) /\ merkleRoots(r[1], r[2])
          /\ UNCHANGED pipelineVars
    \/ \E ret \in {"true", "false", "revert"} :
          TokenReturn(ret) /\ UNCHANGED pipelineVars

Spec == Init /\ [][Next]_vars

(***************************************************************************)
(* SpecReentrant: the token calls back.  While a call waits in the token,  *)
(* further calls enter the contract, up to MaxDepth nested calls; a revert *)
(* of a waiting call undoes what the calls nested in it did.  The inputs   *)
(* are the owner's seeds of Root1 and the claims of its two leaves.        *)
(***************************************************************************)
ReentrantShapes(lp) == {Entry(m, Leaf1(lp)) : m \in Months}

ReentrantBatches(lp) == UNION { [1 .. n -> ReentrantShapes(lp)] : n \in 0 .. MaxBatch }

NextReentrant ==
    \/ \E lp \in Addrs : \E c \in ReentrantShapes(lp) :
          /\ CanCall(MaxDepth) /\ claimMonth(lp, c.month, c.balance, c.merkleProof)
          /\ UNCHANGED pipelineVars
    \/ \E lp \in Addrs : \E claims \in ReentrantBatches(lp) :
          /\ CanCall(MaxDepth) /\ claimMonths(lp, claims)
          /\ UNCHANGED pipelineVars
    \/ \E m \in Months, a \in AllocInputs :
          /\ CanCall(MaxDepth) /\ seedAllocations(Deployer, m, Root1, a)
          /\ UNCHANGED pipelineVars
    \/ \E ret \in {"true", "false", "revert"} :
          TokenReturn(ret) /\ UNCHANGED pipelineVars

SpecReentrant == Init /\ [][NextReentrant]_vars

(***************************************************************************)
(* The snapshot pipeline: snapshots/cli.js and                             *)
(* snapshots/src/helpers/subgraph-events.js.  Basis-point quantities are   *)
(* counted in units of 10^7: the basis 10^9 is 100 and the step 10^7 of    *)
(* the target is 1.  The page size and the page limit of the fetch loop,   *)
(* both 1000 in the code, are PageSize and MaxPages.                       *)
(***************************************************************************)
\* first: 1000, and sets.length < 1000, sets[999].
PageSize == 2
\* for (let i = 0; i < 1000; i++)
MaxPages == 2
\* The most records the subgraph holds in the window: one more than the loop reads.
MaxRecords == PageSize * MaxPages + 1

ArbitrumOne == 42161
BaseYear == 2025
BaseMonth == 0
TargetStart == 29
TargetCap == 50
TargetUnit == 1
Basis == 100
pnkDropRatio == Basis

\* chains
Chains == <<[chainId |-> ArbitrumOne, pnkDropRatio |-> pnkDropRatio]>>

\* BigNumber.div: the quotient rounded towards zero.
TruncDiv(a, b) == IF a >= 0 THEN a \div b ELSE -((-a) \div b)

getDatesAndPeriod(currentYear, currentMonth) ==
    LET monthDiff == (currentYear - BaseYear) * 12 + currentMonth - BaseMonth - 1
    IN  [ target |-> Min(TargetStart + monthDiff, TargetCap) * TargetUnit,
          periods |-> 1 + monthDiff ]

\* The pool-sizing lines of main.
PoolSizing(_lastamount, target, totalPNKStaked, totalSupply) ==
    LET stakePercent == TruncDiv(totalPNKStaked * Basis, totalSupply)
        onePlusStakeMinusTarget == Basis + target - stakePercent
    IN  [ stakePercent |-> stakePercent,
          onePlusStakeMinusTarget |-> onePlusStakeMinusTarget,
          fullReward |-> TruncDiv(_lastamount * onePlusStakeMinusTarget, Basis) ]

DroppedAmount(fullReward, c) == TruncDiv(fullReward * c.pnkDropRatio, Basis)

\* The subgraph's answer to the query of fetchStakeSets.
fetchStakeSets(src, blockStart, blockEnd, lastId) ==
    LET InPage(r) == /\ r.blocknumber >= blockStart
                     /\ r.blocknumber < blockEnd
                     /\ r.id > lastId
        hits == SelectSeq(src, InPage)
    IN  SubSeq(hits, 1, Min(Len(hits), PageSize))

parseStakeSetsIntoEvents(subgraphStakeSets) ==
    [ k \in 1 .. Len(subgraphStakeSets) |->
        [ _address |-> subgraphStakeSets[k].address,
          logIndex |-> subgraphStakeSets[k].logIndex,
          blockNumber |-> subgraphStakeSets[k].blocknumber ] ]

\* The comparator of getStakeSets.
Compare(a, b) ==
    IF a.blockNumber = b.blockNumber THEN a.logIndex - b.logIndex
    ELSE a.blockNumber - b.blockNumber

\* Array.prototype.sort: stable, e goes behind the elements that do not follow it.
RECURSIVE InsertSorted(_, _, _)
InsertSorted(sorted, e, k) ==
    IF k > Len(sorted) \/ Compare(sorted[k], e) > 0
    THEN SubSeq(sorted, 1, k - 1) \o <<e>> \o SubSeq(sorted, k, Len(sorted))
    ELSE InsertSorted(sorted, e, k + 1)

RECURSIVE SortFrom(_, _, _)
SortFrom(parsed, k, sorted) ==
    IF k > Len(parsed) THEN sorted
    ELSE SortFrom(parsed, k + 1, InsertSorted(sorted, parsed[k], 1))

SortEvents(parsed) == SortFrom(parsed, 1, <<>>)

\* Inputs of a run.  The clock: January, February and March 2025, and
\* October, November and December 2026 (months count from 0).
ClockInputs ==
    { [year |-> 2025, month |-> m] : m \in 0 .. 2 }
    \cup { [year |-> 2026, month |-> m] : m \in 9 .. 11 }

LastAmountInputs == {0, 100}

\* totalSupply() of the token.
SupplyInputs == {0, 10}

\* averageTotalStaked of the previous window's snapshot.
StakedInputs == {0, 5, 20}

\* merkleTree.root of the snapshot.
SnapshotRoots == {Root1}

\* The block ranges of the previous and of the current window.
PrevWindow == <<0, 1>>
CurWindow == <<1, 3>>

\* The subgraph's records: one in the previous window, n in the current one
\* (not in block order; in the "duplicate" shape with equal log indexes), one
\* at the end block of the current window.
Source(n, shape) ==
    [ k \in 1 .. n + 2 |->
        [ id |-> k,
          address |-> 1 + (k % 2),
          blocknumber |-> IF k = 1 THEN PrevWindow[1]
                          ELSE IF k = n + 2 THEN CurWindow[2]
                          ELSE CurWindow[1] + ((k + 1) % 2),
          logIndex |-> IF shape = "duplicate" THEN 0 ELSE k ] ]

SourceInputs ==
    { Source(n, shape) : n \in 0 .. MaxRecords, shape \in {"distinct", "duplicate"} }

\* main throws: the process ends.
Abort(why) ==
    /\ pc' = "aborted"
    /\ cause' = why

\* createSnapshot asks getStakeSets for the window's records.
getStakeSets(phase, window, chainId) ==
    IF chainId # ArbitrumOne
    THEN Abort("Unsupported chain, not arbitrum one") /\ UNCHANGED fetch
    ELSE /\ fetch' = [NoFetch EXCEPT !.phase = phase, !.blockStart = window[1],
                                     !.blockEnd = window[2]]
         /\ pc' = "fetch"
         /\ UNCHANGED cause

\* main up to its first await: the dates, then getTotalPNKStaked's snapshot of
\* the previous window.
MainStart ==
    /\ pc = "main"
    /\ LET d == getDatesAndPeriod(clock.year, clock.month) IN
       locals' = [locals EXCEPT !.target = d.target, !.period = d.periods]
    /\ getStakeSets("count", PrevWindow, Chains[1].chainId)
    /\ UNCHANGED <<clock, lastamount, source, written, uploaded, tx>>
    /\ UNCHANGED ledgerVars

\* One pass of the loop of fetchAllStakeSets whose fetch resolves; after the
\* last pass getStakeSets parses and sorts.
FetchResolves ==
    /\ pc = "fetch"
    /\ LET sets == fetchStakeSets(source, fetch.blockStart, fetch.blockEnd, fetch.lastId)
           batches == fetch.batches \o sets
       IN  IF Len(sets) < PageSize \/ fetch.i + 1 >= MaxPages
           THEN /\ fetch' = [fetch EXCEPT !.batches = batches,
                                          !.attempts = @ + 1,
                                          !.events = SortEvents(parseStakeSetsIntoEvents(batches))]
                /\ pc' = fetch.phase
           ELSE /\ fetch' = [fetch EXCEPT !.batches = batches,
                                          !.lastId = sets[PageSize].id,
                                          !.i = @ + 1,
                                          !.attempts = 0]
                /\ pc' = pc
    /\ UNCHANGED <<clock, lastamount, source, locals, written, uploaded, tx, cause>>
    /\ UNCHANGED ledgerVars

\* The fetch of a page rejects: nothing catches it.
FetchRejects ==
    /\ pc = "fetch"
    /\ fetch' = [fetch EXCEPT !.attempts = @ + 1]
    /\ Abort("fetch")
    /\ UNCHANGED <<clock, lastamount, source, locals, written, uploaded, tx>>
    /\ UNCHANGED ledgerVars

\* The previous window is counted: totalSupply, the pool, and the snapshot of
\* the current window for the chain.
SizePool ==
    /\ pc = "count"
    /\ \E totalPNKStaked \in StakedInputs, totalSupply \in SupplyInputs :
          IF totalSupply = 0
          THEN /\ Abort("division-by-zero")
               /\ UNCHANGED <<locals, fetch>>
          ELSE LET p == PoolSizing(lastamount, locals.target, totalPNKStaked, totalSupply)
               IN  /\ locals' = [locals EXCEPT
                                    !.totalPNKStaked = totalPNKStaked,
                                    !.totalSupply = totalSupply,
                                    !.fullReward = p.fullReward,
                                    !.droppedAmount = DroppedAmount(p.fullReward, Chains[1])]
                   /\ getStakeSets("snapshot", CurWindow, Chains[1].chainId)
    /\ UNCHANGED <<clock, lastamount, source, written, uploaded, tx>>
    /\ UNCHANGED ledgerVars

\* Main does not wait for fileToIpfs.
AfterWriteNoAwait == "seed"

\* const ipfsPath = await fileToIpfs(path)
AfterWrite == "upload"

\* The snapshot is there: fs.writeFileSync, then fileToIpfs is called.
WriteSnapshot ==
    /\ pc = "snapshot"
    /\ \E root \in SnapshotRoots : locals' = [locals EXCEPT !.root = root]
    /\ written' = TRUE
    /\ pc' = AfterWrite
    /\ UNCHANGED <<clock, lastamount, source, fetch, uploaded, tx, cause>>
    /\ UNCHANGED ledgerVars

UploadResolves ==
    /\ pc = "upload"
    /\ uploaded' = TRUE
    /\ pc' = "seed"
    /\ UNCHANGED <<clock, lastamount, source, locals, fetch, written, tx, cause>>
    /\ UNCHANGED ledgerVars

UploadRejects ==
    /\ pc = "upload"
    /\ Abort("upload")
    /\ UNCHANGED <<clock, lastamount, source, locals, fetch, written, uploaded, tx>>
    /\ UNCHANGED ledgerVars

\* A uint argument of the transaction can be encoded.
Encodable(v) == v >= 0

\* populateTransaction.seedAllocations(period, root, droppedAmount)
PopulateTransaction ==
    /\ pc = "seed"
    /\ IF Encodable(locals.period) /\ Encodable(locals.droppedAmount)
       THEN /\ tx' = [month |-> locals.period, root |-> locals.root,
                      alloc |-> locals.droppedAmount, made |-> TRUE]
            /\ pc' = "done"
            /\ UNCHANGED cause
       ELSE /\ Abort("value out-of-bounds")
            /\ UNCHANGED tx
    /\ UNCHANGED <<clock, lastamount, source, locals, fetch, written, uploaded>>
    /\ UNCHANGED ledgerVars

InitPipeline ==
    /\ Constructed
    /\ pc = "main"
    /\ clock \in ClockInputs
    /\ lastamount \in LastAmountInputs
    /\ source \in SourceInputs
    /\ locals = NoLocals
    /\ fetch = NoFetch
    /\ written = FALSE
    /\ uploaded = FALSE
    /\ tx = NoTx
    /\ cause = "none"

NextPipeline ==
    \/ MainStart
    \/ FetchResolves
    \/ FetchRejects
    \/ SizePool
    \/ WriteSnapshot
    \/ UploadResolves
    \/ UploadRejects
    \/ PopulateTransaction

SpecPipeline == InitPipeline /\ [][NextPipeline]_vars

(***************************************************************************)
(* Properties.                                                             *)
(***************************************************************************)
ClaimOps == {"claimMonth", "claimMonths"}

\* The amount the tree under root r gives lp (the trees have one leaf per address).
LeafAmount(r, lp) == CHOOSE amt \in Amounts : Commits(r, lp, amt)

RECURSIVE SumLeafAmounts(_, _, _, _)
SumLeafAmounts(roots, lp, months, i) ==
    IF i > Len(months) THEN 0
    ELSE LeafAmount(roots[months[i]], lp) + SumLeafAmounts(roots, lp, months, i + 1)

\* The call of the last step names a pair that a successful claim had paid before.
RepeatsPaidPair ==
    \E m \in Months : Covers(last.call, m, last.call.lp) > 0 /\ last.pre.paid[m][last.call.lp] >= 1

\* C1: for every (month, claimant) at most one claim call that covers the pair
\* succeeds; a successful claim moves exactly the committed leaf amount(s) from
\* the contract to the claimant; a claim call that names a pair already paid
\* fails and changes nothing, and claimMonth fails in the already-claimed require.
C1_ClaimedOnce ==
    /\ \A m \in Months, a \in Addrs : paid[m][a] <= 1
    /\ (last.call.op \in ClaimOps /\ last.res = "ok") =>
          /\ \A i \in 1 .. Len(last.call.months) : \E amt \in Amounts :
                Commits(monthMerkleRoots[last.call.months[i]], last.call.lp, amt)
          /\ last.call.op = "claimMonth" =>
                Commits(monthMerkleRoots[last.call.months[1]], last.call.lp, last.call.amount)
          /\ balanceOf = TokenMove(last.before.bal, This, last.call.lp,
                            SumLeafAmounts(monthMerkleRoots, last.call.lp, last.call.months, 1))
          /\ \A m \in Months, a \in Addrs :
                paid[m][a] = last.pre.paid[m][a] + Covers(last.call, m, a)
    /\ (last.call.op \in ClaimOps /\ last.ret = "none" /\ RepeatsPaidPair) =>
          /\ last.res \in {ErrClaimed, ErrProof}
          /\ last.call.op = "claimMonth" => last.res = ErrClaimed
          /\ Ledger = last.pre
          /\ Len(stack) = last.depth

\* A second claimMonth for a pair that was paid has failed as already claimed.
C1_Witness ==
    /\ last.call.op = "claimMonth"
    /\ last.res = ErrClaimed
    /\ paid[last.call.months[1]][last.call.lp] = 1
    /\ balanceOf[last.call.lp] >= 1
    /\ verifyClaim(monthMerkleRoots, last.call.lp, last.call.months[1],
                   last.call.amount, last.call.proof)

\* C2: a root that is set (non-zero) when a call is made is the same after
\* every step of the call, whoever made it and however it ends.
C2_RootImmutable ==
    \A m \in Months :
        last.pre.roots[m] # Zero => monthMerkleRoots[m] = last.pre.roots[m]

\* The owner tried to seed a seeded month with another root and failed.
C2_Witness ==
    /\ last.call.op = "seedAllocations"
    /\ last.call.sender = owner
    /\ last.res = ErrRewrite
    /\ last.call.root # Zero
    /\ last.call.root # monthMerkleRoots[last.call.months[1]]

\* C3: seedAllocations succeeds at most once per period, whatever root and
\* allocation the owner passes: a seed of a period seeded before reverts and
\* leaves root and balances as they were.
C3_SeedOncePerPeriod ==
    /\ \A m \in Months : seeds[m] <= 1
    /\ (/\ last.call.op = "seedAllocations"
        /\ last.ret = "none"
        /\ last.pre.seeds[last.call.months[1]] >= 1) =>
          /\ last.res \in Errors
          /\ Ledger = last.pre

\* Entry i of the batch has an invalid proof, names a pair claimed when the call
\* was made, or repeats the month of an earlier entry.
BadEntry(pre, lp, claims, i) ==
    \/ ~verifyClaim(pre.roots, lp, claims[i].month, claims[i].balance, claims[i].merkleProof)
    \/ pre.claimed[claims[i].month][lp]
    \/ \E j \in 1 .. (i - 1) : claims[j].month = claims[i].month

\* C4: a claimMonths call with a bad entry at any position fails, and flags,
\* roots and balances are as when the call was made; nothing is left waiting
\* in the token.
C4_BatchAllOrNothing ==
    (/\ last.call.op = "claimMonths"
     /\ \E i \in 1 .. Len(last.call.claims) :
           BadEntry(last.pre, last.call.lp, last.call.claims, i)) =>
        /\ last.res \in Errors
        /\ Ledger = last.pre
        /\ Len(stack) = last.depth

\* A two-entry batch failed on its second entry after the first had passed.
C4_Witness ==
    /\ last.call.op = "claimMonths"
    /\ last.res \in Errors
    /\ Len(last.call.claims) = 2
    /\ ~BadEntry(last.pre, last.call.lp, last.call.claims, 1)
    /\ BadEntry(last.pre, last.call.lp, last.call.claims, 2)

\* C5: claimMonth goes on only when (claimant, amount) is a leaf of the tree
\* under the month's stored root; when the proof does not verify claimant and
\* amount against that root the call fails (with the proof error, unless the
\* pair is already claimed) and changes nothing.
C5_ProofRequired ==
    last.call.op = "claimMonth" =>
        LET m == last.call.months[1] IN
        /\ last.res \in {"ok", "pending"} =>
              Commits(last.pre.roots[m], last.call.lp, last.call.amount)
        /\ ~verifyClaim(last.pre.roots, last.call.lp, m, last.call.amount, last.call.proof) =>
              /\ last.res \in Errors
              /\ ~last.pre.claimed[m][last.call.lp] => last.res = ErrProof
              /\ Ledger = last.pre
              /\ Len(stack) = last.depth

\* A claim on a seeded month for a leaf the root does not commit has failed.
C5_Witness ==
    /\ last.call.op = "claimMonth"
    /\ last.res = ErrProof
    /\ monthMerkleRoots[last.call.months[1]] # Zero
    /\ ~Commits(monthMerkleRoots[last.call.months[1]], last.call.lp, last.call.amount)

\* C6: seedAllocations from a caller who is not the owner fails with the
\* ownership error and changes nothing; a stored root differs from the one at
\* the start of a call only if the call is the owner's seedAllocations of that
\* month, and then it is the root the owner passed.
C6_OnlyOwnerSeeds ==
    /\ (last.call.op = "seedAllocations" /\ last.call.sender # last.pre.owner) =>
          /\ last.res = ErrOwner
          /\ Ledger = last.pre
          /\ Len(stack) = last.depth
    /\ \A m \in Months :
          monthMerkleRoots[m] # last.pre.roots[m] =>
             /\ last.call.op = "seedAllocations"
             /\ last.call.sender = last.pre.owner
             /\ last.call.months = <<m>>
             /\ monthMerkleRoots[m] = last.call.root

\* A claimant tried to seed an unseeded month and failed.
C6_Witness ==
    /\ last.call.op = "seedAllocations"
    /\ last.call.sender # owner
    /\ last.res = ErrOwner
    /\ last.call.root # Zero
    /\ monthMerkleRoots[last.call.months[1]] = Zero

\* The call of the last step names a pair of a call that was waiting in the
\* token when it was made.
ReentersPendingPair ==
    \E i \in 1 .. last.depth : \E m \in Months :
        /\ Covers(stack[i].call, m, last.call.lp) > 0
        /\ Covers(last.call, m, last.call.lp) > 0

\* C7: while a claim waits in the token's transfer, the flag of every pair it
\* covers is set; a claim made from inside the transfer for such a pair fails
\* (claimMonth in the already-claimed require) and changes nothing; and no
\* pair is paid twice.
C7_FlagBeforeTransfer ==
    /\ \A i \in 1 .. Len(stack) : \A m \in Months, a \in Addrs :
          Covers(stack[i].call, m, a) > 0 => claimed[m][a]
    /\ (last.call.op \in ClaimOps /\ last.ret = "none" /\ ReentersPendingPair) =>
          /\ last.res \in Errors
          /\ last.call.op = "claimMonth" => last.res = ErrClaimed
          /\ Ledger = last.pre
    /\ \A m \in Months, a \in Addrs : paid[m][a] <= 1

\* A claimMonth re-entered for the pair of the waiting outer claim has failed.
C7_Witness ==
    /\ last.depth >= 1
    /\ last.call.op = "claimMonth"
    /\ last.res = ErrClaimed
    /\ stack[1].call.op \in ClaimOps
    /\ Covers(stack[1].call, last.call.months[1], last.call.lp) > 0
    /\ paid[last.call.months[1]][last.call.lp] = 0

\* claimMonth on claims[i], claims[i+1], ... in order, with a token that pays
\* whenever the contract holds the amount.
RECURSIVE SinglesFrom(_, _, _, _, _, _)
SinglesFrom(roots, cl, bal, lp, claims, i) ==
    IF i > Len(claims)
    THEN [res |-> "ok", claimed |-> cl, bal |-> bal]
    ELSE LET c == claims[i]
             eff == ClaimMonthEffects(roots, cl, lp, c.month, c.balance, c.merkleProof)
         IN  IF eff.res # "ok"
             THEN [res |-> "reverted", claimed |-> cl, bal |-> bal]
             ELSE IF ~NeedsTransfer(eff.totalBalance)
             THEN SinglesFrom(roots, eff.claimed, bal, lp, claims, i + 1)
             ELSE IF ~TokenAccepts(bal, This, eff.totalBalance)
             THEN [res |-> "unfunded", claimed |-> cl, bal |-> bal]
             ELSE SinglesFrom(roots, eff.claimed,
                              TokenMove(bal, This, lp, eff.totalBalance), lp, claims, i + 1)

\* C8: a claimMonths call that succeeds leaves the flags and balances that
\* claimMonth on its entries in order leaves, all of them succeeding; one that
\* fails in a require is a batch whose single claims would not all succeed;
\* and one that passed its requires can be paid by the token exactly when
\* every single claim can.
C8_BatchEqualsSingles ==
    last.call.op = "claimMonths" =>
        LET s == SinglesFrom(last.pre.roots, last.pre.claimed, last.pre.bal,
                             last.call.lp, last.call.claims, 1)
        IN  /\ last.res = "ok" =>
                  /\ s.res = "ok"
                  /\ claimed = s.claimed
                  /\ balanceOf = s.bal
            /\ (last.res \in Errors /\ last.ret = "none") => s.res # "ok"
            /\ last.res = "pending" =>
                  /\ s.res # "reverted"
                  /\ s.res = "ok" <=>
                        TokenAccepts(balanceOf, This, stack[Len(stack)].amt)

\* A batch of two claims was paid in one transfer.
C8_Witness ==
    /\ last.call.op = "claimMonths"
    /\ last.res = "ok"
    /\ last.ret = "true"
    /\ Len(last.call.claims) = 2
    /\ last.call.claims[1].balance > 0
    /\ last.call.claims[2].balance > 0

\* C9: for every begin <= end the range queries return end - begin + 1
\* elements, the i-th being the flag, respectively the root, of period
\* begin + i, and change nothing.
C9_RangeQueries ==
    (last.call.op \in {"claimStatus", "merkleRoots"} /\ last.call.begin <= last.call.end) =>
        LET size == last.call.end - last.call.begin + 1 IN
        /\ last.res = "ok"
        /\ Ledger = last.pre
        /\ last.call.op = "claimStatus" =>
              /\ Len(last.retBools) = size
              /\ \A i \in 1 .. size :
                    last.retBools[i] =
                       ClaimedAt(claimed, last.call.begin + (i - 1), last.call.lp)
        /\ last.call.op = "merkleRoots" =>
              /\ Len(last.retRoots) = size
              /\ \A i \in 1 .. size :
                    last.retRoots[i] = RootAt(monthMerkleRoots, last.call.begin + (i - 1))

\* C10: when the token answers false or reverts, the call that made the
\* transfer reverts with the transfer error and flags, roots and balances are
\* as when the call was made.
C10_TransferFailureRollsBack ==
    last.ret \in {"false", "revert"} =>
        /\ last.res = ErrTransfer
        /\ Ledger = last.pre
        /\ Len(stack) = last.depth

\* The token returned false to a seed: the root the call had written is gone.
C10_Witness ==
    /\ last.ret = "false"
    /\ last.call.op = "seedAllocations"
    /\ last.call.root # Zero
    /\ last.before.roots[last.call.months[1]] = last.call.root
    /\ monthMerkleRoots[last.call.months[1]] = Zero

\* A claimMonth call as a record.
ClaimCall(lp, m, c) ==
    [lp |-> lp, month |-> m, balance |-> c.balance, merkleProof |-> c.merkleProof]

\* claimMonth(c) run to its end on flags cl and balances bal, with a token that
\* pays exactly when the contract holds the amount: the result, and the flags
\* and balances it leaves (those it found when it reverts).
ClaimOutcome(roots, cl, bal, c) ==
    LET eff == ClaimMonthEffects(roots, cl, c.lp, c.month, c.balance, c.merkleProof)
    IN  IF eff.res # "ok"
        THEN [res |-> eff.res, claimed |-> cl, bal |-> bal]
        ELSE IF ~NeedsTransfer(eff.totalBalance)
        THEN [res |-> "ok", claimed |-> eff.claimed, bal |-> bal]
        ELSE IF ~TokenAccepts(bal, This, eff.totalBalance)
        THEN [res |-> ErrTransfer, claimed |-> cl, bal |-> bal]
        ELSE [res |-> "ok", claimed |-> eff.claimed,
              bal |-> TokenMove(bal, This, c.lp, eff.totalBalance)]

\* The claimMonth calls that are valid and not yet claimed in the current state.
OpenClaims ==
    { c \in UNION { { ClaimCall(lp, m, sh) : sh \in ClaimShapes(lp) } :
                       lp \in Addrs, m \in Months } :
        /\ ~claimed[c.month][c.lp]
        /\ verifyClaim(monthMerkleRoots, c.lp, c.month, c.balance, c.merkleProof) }

\* C11: in every state between calls, for any two valid, not yet claimed claims
\* a and b that differ in claimant or in month, a ends the same way whether or
\* not b ran first, b ends the same way whether or not a ran first, and a then
\* b leaves the flags and balances that b then a leaves.
C11_ClaimsIndependent ==
    stack = <<>> =>
        \A a \in OpenClaims, b \in OpenClaims :
            (a.lp # b.lp \/ a.month # b.month) =>
                LET ra == ClaimOutcome(monthMerkleRoots, claimed, balanceOf, a)
                    rb == ClaimOutcome(monthMerkleRoots, claimed, balanceOf, b)
                    rab == ClaimOutcome(monthMerkleRoots, ra.claimed, ra.bal, b)
                    rba == ClaimOutcome(monthMerkleRoots, rb.claimed, rb.bal, a)
                IN  /\ rab.res = rb.res
                    /\ rba.res = ra.res
                    /\ rab.claimed = rba.claimed
                    /\ rab.bal = rba.bal

\* C18: for every period, the tokens paid out by successful claims for the
\* period are at most the totalAllocation its seeds pulled into the contract.
C18_EscrowPerPeriod ==
    \A m \in Months : escrow.out[m] <= escrow.in[m]

RECURSIVE SumOver(_, _)
SumOver(f, S) ==
    IF S = {} THEN 0
    ELSE LET m == CHOOSE x \in S : TRUE IN f[m] + SumOver(f, S \ {m})

C20_UnseededNeverPays ==
    (/\ last.call.op \in ClaimOps
     /\ \E i \in 1 .. Len(last.call.months) : last.pre.roots[last.call.months[i]] = Zero) =>
        /\ last.res \in Errors
        /\ Ledger = last.pre
        /\ Len(stack) = last.depth

\* A claim with the empty proof on an unseeded month has failed while the
\* contract held the amount it asked for.
C20_Witness ==
    /\ last.call.op = "claimMonth"
    /\ last.call.proof = <<>>
    /\ last.call.amount > 0
    /\ monthMerkleRoots[last.call.months[1]] = Zero
    /\ last.res = ErrProof
    /\ balanceOf[This] >= last.call.amount
    /\ ~claimed[last.call.months[1]][last.call.lp]

\* main has sized the pool.
PoolSized == fetch.phase = "snapshot"

\* C12: for every lastamount >= 0, totalSupply > 0 and totalPNKStaked >= 0 the
\* sized pool fullReward and the chain's droppedAmount are >= 0, also when
\* stakePercent exceeds basis + target.
C12_PoolNonNegative ==
    (/\ PoolSized
     /\ lastamount >= 0
     /\ locals.totalSupply > 0
     /\ locals.totalPNKStaked >= 0) =>
        /\ locals.fullReward >= 0
        /\ locals.droppedAmount >= 0

\* C13: for every run date the period index is 1 + monthDiff and the target
\* is (29 + monthDiff) * 10^7 held between 29 * 10^7 and 50 * 10^7.
C13_TargetRamp ==
    pc \notin {"idle", "main"} =>
        LET monthDiff == (clock.year - BaseYear) * 12 + clock.month - BaseMonth - 1
            ramp == (TargetStart + monthDiff) * TargetUnit
        IN  /\ locals.period = 1 + monthDiff
            /\ locals.target >= TargetStart * TargetUnit
            /\ locals.target <= TargetCap * TargetUnit
            /\ (ramp >= TargetStart * TargetUnit /\ ramp <= TargetCap * TargetUnit) =>
                  locals.target = ramp

\* fetchAllStakeSets has returned and getStakeSets has sorted.
FetchDone == pc \in {"count", "snapshot"}

\* The ids of the source's records in the block range of the fetch.
IdsInRange ==
    { source[k].id : k \in { j \in 1 .. Len(source) :
                               /\ source[j].blocknumber >= fetch.blockStart
                               /\ source[j].blocknumber < fetch.blockEnd } }

\* C14: what fetchAllStakeSets returns holds every record of the block range
\* exactly once and no other record, however many records the range has.
C14_FetchComplete ==
    FetchDone =>
        /\ { fetch.batches[k].id : k \in 1 .. Len(fetch.batches) } = IdsInRange
        /\ Len(fetch.batches) = Cardinality(IdsInRange)

\* C15: the events getStakeSets returns are strictly increasing in
\* (blockNumber, logIndex); with two records of one key it returns nothing.
C15_StrictOrder ==
    FetchDone =>
        \A k \in 1 .. Len(fetch.events) - 1 :
            Compare(fetch.events[k], fetch.events[k + 1]) < 0

\* C16: the seeding transaction exists only after the snapshot file is written
\* and its upload has resolved, main reaches the transaction only then, and a
\* run whose upload failed produces no transaction.
C16_UploadBeforeSeed ==
    /\ tx.made => written /\ uploaded
    /\ pc \in {"seed", "done"} => written /\ uploaded
    /\ cause = "upload" => ~tx.made /\ pc = "aborted"

\* A run wrote the file, uploaded it and produced the transaction.
C16_Witness ==
    /\ pc = "done"
    /\ tx.made
    /\ tx.root # Zero
    /\ written
    /\ uploaded

\* C17: a run that aborted on a failed page fetch had fetched that page more
\* than once, and it wrote no snapshot file and produced no transaction.
C17_FetchRetried ==
    (pc = "aborted" /\ cause = "fetch") =>
        /\ fetch.attempts >= 2
        /\ ~written
        /\ ~tx.made

====
